---- MODULE Spec2Model ----
(***************************************************************************)
(* The two browser-side cue components of daily_exercise.py:               *)
(*   - breathing_component: the phase sequencer (startFlow / runCycle /    *)
(*     nextStep / setPhase / stopAll), src/daily_exercise.py 554-650;      *)
(*   - sequence_caller: the periodic cue caller (start / tick / stop),     *)
(*     src/daily_exercise.py 696-749.                                      *)
(* Each component is one script in its own window.  A window is modelled   *)
(* with its timer table (setTimeout / setInterval / clearInterval), its    *)
(* single speech-synthesis slot and its DOM texts.  Handlers and timer     *)
(* callbacks run to completion, one at a time (the JS event loop); time    *)
(* passes in whole seconds between them.                                   *)
(***************************************************************************)
EXTENDS Integers, Sequences, FiniteSets, TLC

\* ---------------------------------------------------------------- bounds
MaxLen == 3        \* longest pattern / cue list drawn
MaxDur == 2        \* longest phase duration / cue interval drawn, in seconds
MaxCycles == 2     \* largest cycle / round target drawn
MaxStops == 2      \* clicks on Stop between two effective starts
MaxTimerRuns == 2  \* clicks on a countdown button per session

\* Longest time a run needs, plus one second.
MaxElapsed == MaxCycles * MaxLen * MaxDur + 1

VARIABLES
    \* what the Python side substituted into the script (constants of a window)
    mounted,          \* "breathing" | "caller": the component of this window
    steps,            \* steps___KEY__   : sequence of [label, secs, action]
    maxCycles,        \* maxCycles___KEY__
    cues,             \* cues___KEY__    : sequence of strings
    interval,         \* interval___KEY__, in seconds
    rounds,           \* rounds___KEY__
    supported,        \* supported___KEY__ = ('speechSynthesis' in window)
    speakThrows,      \* the speech calls of speakNow / speak raise an exception
    \* breathing_component script state
    running,          \* running___KEY__
    timers,           \* timers___KEY__  : sequence of timer ids
    cycle,            \* cycle[r]: `cycle` of the startFlow call r (a closure)
    i,                \* i[r]    : `i` of the current runCycle of startFlow call r
    phaseBigText,     \* #phaseBig innerText
    countText,        \* #count innerText
    circleTransform,  \* #circle style.transform
    \* sequence_caller script state
    isRunning,        \* isRunning___KEY__
    timer,            \* timer___KEY__ (0 is null)
    idx,              \* idx[r]  : `idx` of the start call r (a closure)
    count,            \* count[r]: `count` of the start call r
    cueText,          \* #cue innerText
    roundText,        \* #round innerText
    \* the window
    pending,          \* active timers: set of timer records
    utterance,        \* the utterance the speech slot holds ("" is none)
    \* observation
    trace,            \* display and narration events since the last effective start
    lastOp,           \* the handler or callback that ran last
    stopClicks,       \* clicks on Stop since the last effective start
    outcome,          \* of the last run: "none" | "running" | "completed" | "stopped"
    elapsed,          \* seconds the last run has been running
    \* the countdown timers of the Python pages (Voice Warmup, Meeting Primer)
    durationMin,      \* duration_min, the prep timer slider (0 on other pages)
    pyPc,             \* where the script is: "idle" | "loop" | "sleep" | "after"
    loopS,            \* the loop variable s
    timerText,        \* what the placeholder ph shows
    successes,        \* st.success messages shown
    logRows,          \* st.session_state.log_df: the rows appended
    \* observation of the countdown
    shownTexts,       \* what ph has shown since the last click, in order
    slept,            \* time.sleep(1) calls returned since the last click
    timerRuns         \* clicks on the countdown button

config == <<mounted, steps, maxCycles, cues, interval, rounds, supported, speakThrows>>
vars == <<mounted, steps, maxCycles, cues, interval, rounds, supported, speakThrows,
          running, timers, cycle, i, phaseBigText, countText, circleTransform,
          isRunning, timer, idx, count, cueText, roundText,
          pending, utterance, trace, lastOp, stopClicks, outcome, elapsed,
          durationMin, pyPc, loopS, timerText, successes, logRows,
          shownTexts, slept, timerRuns>>
pyVars == <<durationMin, pyPc, loopS, timerText, successes, logRows,
            shownTexts, slept, timerRuns>>

\* ------------------------------------------------------ the mutable state
\* The mutable state as one record, so that a handler is the composition of
\* the calls it makes.  `thrown` is an exception propagating out of the call.
State ==
    [running |-> running, timers |-> timers, cycle |-> cycle, i |-> i,
     phaseBigText |-> phaseBigText, countText |-> countText,
     circleTransform |-> circleTransform,
     isRunning |-> isRunning, timer |-> timer, idx |-> idx, count |-> count,
     cueText |-> cueText, roundText |-> roundText,
     pending |-> pending, utterance |-> utterance,
     trace |-> trace, thrown |-> FALSE]

Restrict(f, D) == [x \in D \cap DOMAIN f |-> f[x]]
NoClosure == [x \in {} |-> 0]

\* The closures a callback of an active timer of kind k belongs to.
LiveRuns(s, k) == {t.run : t \in {u \in s.pending : u.kind = k}}

\* The handler or callback `op` ends in state s; an uncaught exception ends
\* with it (the window reports it and goes on).  The variables of a closure
\* that no active timer's callback refers to are unreachable and dropped.
Commit(s, op) ==
    /\ running' = s.running
    /\ timers' = s.timers
    /\ cycle' = Restrict(s.cycle, LiveRuns(s, "advance"))
    /\ i' = Restrict(s.i, LiveRuns(s, "advance"))
    /\ phaseBigText' = s.phaseBigText
    /\ countText' = s.countText
    /\ circleTransform' = s.circleTransform
    /\ isRunning' = s.isRunning
    /\ timer' = s.timer
    /\ idx' = Restrict(s.idx, LiveRuns(s, "tick"))
    /\ count' = Restrict(s.count, LiveRuns(s, "tick"))
    /\ cueText' = s.cueText
    /\ roundText' = s.roundText
    /\ pending' = s.pending
    /\ utterance' = s.utterance
    /\ trace' = s.trace
    /\ lastOp' = op
    /\ UNCHANGED config
    /\ UNCHANGED pyVars

Ev(e, t, k) == [ev |-> e, txt |-> t, n |-> k]
Emit(s, e) == [s EXCEPT !.trace = Append(@, e)]

\* ------------------------------------------------------------- the window
\* The least positive integer not in S.
RECURSIVE LeastFrom(_, _)
LeastFrom(k, S) == IF k \in S THEN LeastFrom(k + 1, S) ELSE k
Fresh(S) == LeastFrom(1, S)

\* The id the next setTimeout / setInterval returns.  The scripts use an id
\* only to clear its timer, so all that matters is that it differs from
\* every id still held: by an active timer, in timers___KEY__, in timer___KEY__.
NextId(s) ==
    Fresh({t.id : t \in s.pending}
           \cup {s.timers[k] : k \in 1..Len(s.timers)} \cup {s.timer})

\* The name of the closure a new startFlow / start call creates.
NextRun(f) == Fresh(DOMAIN f)

\* setInterval / setTimeout: a new active timer.  `run` is the closure the
\* callback belongs to, `remaining` the local of a countdown's callback.
NewTimer(s, k, delay, r, rem) ==
    [s EXCEPT !.pending = @ \cup {[id |-> NextId(s), kind |-> k,
                                   left |-> IF delay < 0 THEN 0 ELSE delay,
                                   period |-> IF delay < 0 THEN 0 ELSE delay,
                                   run |-> r, remaining |-> rem]}]

\* clearInterval(id) (clearTimeout shares the id pool).
ClearInterval(s, id) ==
    [s EXCEPT !.pending = {t \in @ : t.id # id}]

\* window.speechSynthesis.cancel()
SpeechCancel(s) == Emit([s EXCEPT !.utterance = ""], Ev("cancel", "", 0))

\* window.speechSynthesis.cancel(); window.speechSynthesis.speak(u)
SpeechSpeak(s, text) ==
    Emit([SpeechCancel(s) EXCEPT !.utterance = text], Ev("speak", text, 0))

\* --------------------------------------------------- breathing_component
SpeakNowSilent(s, text) == s

\* speakNow___KEY__(text): nothing without speech synthesis; an exception of
\* the speech calls (lines 586-589, e.g. localStorage.getItem in pickVoice
\* raising SecurityError) is not caught and propagates to the caller.
SpeakNow(s, text) ==
    IF ~supported THEN s
    ELSE IF speakThrows THEN [s EXCEPT !.thrown = TRUE]
    ELSE SpeechSpeak(s, text)

\* The scale setPhase gives the circle for a step's action.
ScaleOf(action) ==
    IF action = "expand" THEN "scale(1.35)"
    ELSE IF action = "shrink" THEN "scale(0.83)"
    ELSE "scale(1)"

\* setPhase that does not push its interval to the list.
SetPhaseUntracked(s, label, secs, action) ==
    LET s1 == [s EXCEPT !.phaseBigText = label,
                        !.circleTransform = ScaleOf(action),
                        !.countText = ToString(secs)]
        s2 == Emit(s1, Ev("phase", label, secs))
    IN  NewTimer(s2, "countdown", 1, 0, secs)

\* setPhase___KEY__(label, secs, action): label, circle and countdown start
\* value are displayed and a one-second countdown interval is created and
\* recorded in timers.
SetPhase(s, label, secs, action) ==
    LET s1 == [s EXCEPT !.phaseBigText = label,
                        !.circleTransform = ScaleOf(action),
                        !.countText = ToString(secs)]
        s2 == Emit(s1, Ev("phase", label, secs))
        iv == NextId(s2)
        s3 == NewTimer(s2, "countdown", 1, 0, secs)
    IN  [s3 EXCEPT !.timers = Append(@, iv)]

\* The countdown interval's callback (lines 605-609) for the active timer t:
\* it does not read running___KEY__.
CountdownCallback(s, t) ==
    LET rem == t.remaining - 1
        s1 == [s EXCEPT !.pending = (@ \ {t}) \cup
                   {[t EXCEPT !.remaining = rem, !.left = t.period]}]
    IN  IF rem <= 0 THEN ClearInterval(s1, t.id)
        ELSE Emit([s1 EXCEPT !.countText = ToString(rem)], Ev("count", "", rem))

RECURSIVE ClearAll(_, _)
ClearAll(s, ids) ==
    IF ids = <<>> THEN s ELSE ClearAll(ClearInterval(s, Head(ids)), Tail(ids))

\* The list is emptied and no timer is cleared.
ClearTimersForgets(s) ==
    [s EXCEPT !.timers = <<>>]

\* clearTimers___KEY__(): every recorded timer is cleared, the list emptied.
ClearTimers(s) ==
    [ClearAll(s, s.timers) EXCEPT !.timers = <<>>]

\* stopAll___KEY__() without its clearTimers___KEY__() call.
StopAllFlagOnly(s) ==
    LET s1 == [s EXCEPT !.running = FALSE]
        s2 == Emit([s1 EXCEPT !.phaseBigText = "Stopped",
                              !.countText = "--",
                              !.circleTransform = "scale(1)"],
                   Ev("reset", "Stopped", 0))
    IN  IF supported THEN SpeechCancel(s2) ELSE s2

\* stopAll___KEY__()
StopAll(s) ==
    LET s1 == ClearTimers([s EXCEPT !.running = FALSE])
        s2 == Emit([s1 EXCEPT !.phaseBigText = "Stopped",
                              !.countText = "--",
                              !.circleTransform = "scale(1)"],
                   Ev("reset", "Stopped", 0))
    IN  IF supported THEN SpeechCancel(s2) ELSE s2

\* runCycle() and nextStep() of the r-th startFlow call.  Each runCycle call
\* has its own `i`; the calls of one startFlow follow one another, so i[r]
\* is the `i` of the current one.
RECURSIVE RunCycle(_, _), NextStep(_, _)

\* runCycle() with cycle > maxCycles in place of cycle >= maxCycles.
RunCycleLate(s, r) ==
    IF ~s.running THEN s
    ELSE IF s.cycle[r] > maxCycles THEN StopAll(s)
    ELSE NextStep([s EXCEPT !.i[r] = 0], r)

RunCycle(s, r) ==
    IF ~s.running THEN s
    ELSE IF s.cycle[r] >= maxCycles THEN StopAll(s)
    ELSE NextStep([s EXCEPT !.i[r] = 0], r)

NextStep(s, r) ==
    IF ~s.running THEN s
    ELSE IF s.i[r] >= Len(steps)
         THEN RunCycle([s EXCEPT !.cycle[r] = @ + 1], r)
    ELSE LET step == steps[s.i[r] + 1]
             s1 == SetPhase(s, step.label, step.secs, step.action)
             s2 == SpeakNow(s1, step.label)
             t == NextId(s2)
             s3 == NewTimer(s2, "advance", step.secs, r, 0)
         IN  IF s2.thrown THEN s2
             ELSE [s3 EXCEPT !.timers = Append(@, t)]

\* The timeout fires and nextStep() is not called.
AdvanceCallbackStalls(s, t) ==
    [s EXCEPT !.pending = @ \ {t}]

\* i += 2 in place of i += 1.
AdvanceCallbackSkips(s, t) ==
    NextStep([s EXCEPT !.pending = @ \ {t}, !.i[t.run] = @ + 2], t.run)

\* The phase timeout's callback (line 640): i += 1; nextStep().
AdvanceCallback(s, t) ==
    NextStep([s EXCEPT !.pending = @ \ {t}, !.i[t.run] = @ + 1], t.run)

\* startFlow___KEY__() without its `if(running) return`.
StartFlowAgain(s) ==
    LET r == NextRun(s.cycle)
    IN  RunCycle([s EXCEPT !.running = TRUE,
                           !.cycle = @ @@ (r :> 0),
                           !.i = @ @@ (r :> 0)],
                 r)

\* startFlow___KEY__() that takes up the cycle count where a stopped run left.
StartFlowCarries(s) ==
    IF s.running THEN s
    ELSE LET r == NextRun(s.cycle)
         IN  RunCycle([s EXCEPT !.running = TRUE,
                                !.cycle = @ @@ (r :> IF s.phaseBigText = "Stopped"
                                                     THEN 1 ELSE 0),
                                !.i = @ @@ (r :> 0)],
                      r)

\* startFlow___KEY__()
StartFlow(s) ==
    IF s.running THEN s
    ELSE LET r == NextRun(s.cycle)
         IN  RunCycle([s EXCEPT !.running = TRUE,
                                !.cycle = @ @@ (r :> 0),
                                !.i = @ @@ (r :> 0)],
                      r)


\* ------------------------------------------------------- sequence_caller
\* speak___KEY__(t): as speakNow, lines 713-719.
Speak(s, t) ==
    IF ~supported THEN s
    ELSE IF speakThrows THEN [s EXCEPT !.thrown = TRUE]
    ELSE SpeechSpeak(s, t)

\* "Round " + k + " of " + rounds___KEY__
RoundLabel(k) == "Round " \o ToString(k) \o " of " \o ToString(rounds)

\* stop___KEY__() without its clearInterval.
StopKeepsTimer(s) ==
    LET s1 == [s EXCEPT !.isRunning = FALSE]
        s3 == Emit([s1 EXCEPT !.cueText = "Stopped", !.roundText = ""],
                   Ev("reset", "Stopped", 0))
    IN  IF supported THEN SpeechCancel(s3) ELSE s3

\* stop___KEY__()
Stop(s) ==
    LET s1 == [s EXCEPT !.isRunning = FALSE]
        s2 == IF s1.timer # 0 THEN ClearInterval(s1, s1.timer) ELSE s1
        s3 == Emit([s2 EXCEPT !.cueText = "Stopped", !.roundText = ""],
                   Ev("reset", "Stopped", 0))
    IN  IF supported THEN SpeechCancel(s3) ELSE s3

\* tick() with count > rounds in place of count >= rounds.
TickLate(s, r) ==
    IF ~s.isRunning THEN s
    ELSE LET n == Len(cues)
             text == IF n = 0 THEN "undefined" ELSE cues[(s.idx[r] % n) + 1]
             s1 == Emit([s EXCEPT !.cueText = text], Ev("cue", text, 0))
             s2 == Speak(s1, text)
             s3 == [s2 EXCEPT !.idx[r] = @ + 1]
             s4 == [s3 EXCEPT !.count[r] = @ + 1]
             s5 == Emit([s4 EXCEPT !.roundText = RoundLabel(s4.count[r] + 1)],
                        Ev("round", RoundLabel(s4.count[r] + 1), s4.count[r] + 1))
         IN  IF s2.thrown THEN s2
             ELSE IF n = 0 \/ s3.idx[r] % n # 0 THEN s3
             ELSE IF s5.count[r] > rounds THEN Stop(s5)
             ELSE s5

\* tick() without its check of isRunning___KEY__.
TickUnguarded(s, r) ==
    LET n == Len(cues)
        text == IF n = 0 THEN "undefined" ELSE cues[(s.idx[r] % n) + 1]
        s1 == Emit([s EXCEPT !.cueText = text], Ev("cue", text, 0))
        s2 == Speak(s1, text)
        s3 == [s2 EXCEPT !.idx[r] = @ + 1]
        s4 == [s3 EXCEPT !.count[r] = @ + 1]
        s5 == Emit([s4 EXCEPT !.roundText = RoundLabel(s4.count[r] + 1)],
                   Ev("round", RoundLabel(s4.count[r] + 1), s4.count[r] + 1))
    IN  IF s2.thrown THEN s2
        ELSE IF n = 0 \/ s3.idx[r] % n # 0 THEN s3
        ELSE IF s5.count[r] >= rounds THEN Stop(s5)
        ELSE s5

\* tick() of the r-th start call.  With no cues, idx % 0 is NaN: the cue is
\* undefined and the wrap test NaN === 0 is false.
Tick(s, r) ==
    IF ~s.isRunning THEN s
    ELSE LET n == Len(cues)
             text == IF n = 0 THEN "undefined" ELSE cues[(s.idx[r] % n) + 1]
             s1 == Emit([s EXCEPT !.cueText = text], Ev("cue", text, 0))
             s2 == Speak(s1, text)
             s3 == [s2 EXCEPT !.idx[r] = @ + 1]
             s4 == [s3 EXCEPT !.count[r] = @ + 1]
             s5 == Emit([s4 EXCEPT !.roundText = RoundLabel(s4.count[r] + 1)],
                        Ev("round", RoundLabel(s4.count[r] + 1), s4.count[r] + 1))
         IN  IF s2.thrown THEN s2
             ELSE IF n = 0 \/ s3.idx[r] % n # 0 THEN s3
             ELSE IF s5.count[r] >= rounds THEN Stop(s5)
             ELSE s5

\* start___KEY__() without its first tick() call.
StartWaits(s) ==
    IF s.isRunning THEN s
    ELSE LET r == NextRun(s.idx)
             s1 == [s EXCEPT !.isRunning = TRUE,
                             !.idx = @ @@ (r :> 0),
                             !.count = @ @@ (r :> 0)]
             s2 == Emit([s1 EXCEPT !.roundText = RoundLabel(1)],
                        Ev("round", RoundLabel(1), 1))
             id == NextId(s2)
             s4 == NewTimer(s2, "tick", interval, r, 0)
         IN  [s4 EXCEPT !.timer = id]

\* start___KEY__()
Start(s) ==
    IF s.isRunning THEN s
    ELSE LET r == NextRun(s.idx)
             s1 == [s EXCEPT !.isRunning = TRUE,
                             !.idx = @ @@ (r :> 0),
                             !.count = @ @@ (r :> 0)]
             s2 == Emit([s1 EXCEPT !.roundText = RoundLabel(1)],
                        Ev("round", RoundLabel(1), 1))
             s3 == Tick(s2, r)
             id == NextId(s3)
             s4 == NewTimer(s3, "tick", interval, r, 0)
         IN  IF s3.thrown THEN s3
             ELSE [s4 EXCEPT !.timer = id]

\* The interval's callback (line 745) for the active timer t: tick() of the
\* start call that created it.
IntervalCallback(s, t) ==
    Tick([s EXCEPT !.pending = (@ \ {t}) \cup {[t EXCEPT !.left = t.period]}],
         t.run)

\* ------------------------------------------------------- configurations
\* The k-th step of a pattern has the label and action of the Box pattern's
\* k-th step (lines 522-527, repeated beyond the fourth) and any duration.
BoxLabels == <<"Inhale", "Hold", "Exhale", "Hold">>
BoxActions == <<"expand", "hold", "shrink", "hold">>
StepAt(k, d) ==
    [label |-> BoxLabels[((k - 1) % 4) + 1], secs |-> d,
     action |-> BoxActions[((k - 1) % 4) + 1]]
Patterns(lens, durs) ==
    UNION {{[k \in 1..n |-> StepAt(k, d[k])] : d \in [1..n -> durs]} : n \in lens}

\* The cue list of the Triangle Gaze page (line 1037), cut or repeated to n.
GazeCues == <<"Left eye", "Right eye", "Eyebrows">>
CueLists(lens) == {[k \in 1..n |-> GazeCues[((k - 1) % 3) + 1]] : n \in lens}

\* The values of a window that never change.
Window(m, p, c, l, iv, r, sup, thr) ==
    /\ mounted = m /\ steps = p /\ maxCycles = c
    /\ cues = l /\ interval = iv /\ rounds = r
    /\ supported = sup /\ speakThrows = thr

\* The script as loaded: nothing runs, the display shows "Ready".
Loaded ==
    /\ running = FALSE /\ timers = <<>> /\ cycle = NoClosure /\ i = NoClosure
    /\ phaseBigText = "Ready" /\ countText = "--" /\ circleTransform = ""
    /\ isRunning = FALSE /\ timer = 0 /\ idx = NoClosure /\ count = NoClosure
    /\ cueText = "Ready" /\ roundText = ""
    /\ pending = {} /\ utterance = ""
    /\ trace = <<>> /\ lastOp = "load" /\ stopClicks = 0 /\ outcome = "none"
    /\ elapsed = 0
    /\ pyPc = "idle" /\ loopS = 0 /\ timerText = "" /\ successes = 0
    /\ logRows = <<>> /\ shownTexts = <<>> /\ slept = 0 /\ timerRuns = 0

\* The windows of either component whose pattern or cue list has a length in
\* lens, durations or interval in durs, target in targets; speech is present
\* or absent, and where present its calls raise or not as throws allows.
Windows(lens, durs, targets, throws) ==
    \/ \E p \in Patterns(lens, durs), c \in targets,
          sup \in BOOLEAN, thr \in throws :
          /\ (thr => sup)
          /\ Window("breathing", p, c, <<>>, 0, 0, sup, thr)
          /\ durationMin = 0
    \/ \E l \in CueLists(lens), iv \in durs, r \in targets,
          sup \in BOOLEAN, thr \in throws :
          /\ (thr => sup)
          /\ Window("caller", <<>>, 0, l, iv, r, sup, thr)
          /\ durationMin = 0

\* Valid arguments; speech works or is absent.
Init == Loaded /\ Windows(1..MaxLen, 1..MaxDur, 1..MaxCycles, {FALSE})
\* The same windows, and those whose speech calls raise.
InitFault == Loaded /\ Windows(1..MaxLen, 1..MaxDur, 1..MaxCycles, BOOLEAN)
\* Any arguments of breathing_component's script and of sequence_caller,
\* which check none of them: also no step or cue, zero durations and targets.
InitAny == Loaded /\ Windows(0..MaxLen, 0..MaxDur, 0..MaxCycles, {FALSE})

\* ---------------------------------------------------------------- actions
\* Longest trace a run of valid arguments leaves, with the clicks on Stop.
MaxTrace == MaxCycles * MaxLen * (MaxDur + 3) + 2 * MaxStops + 4

Active == IF mounted = "breathing" THEN running ELSE isRunning

\* A click on Start.  With a new run the trace, the count of clicks on Stop
\* and the run's clock restart; a click that starts a run after another has
\* ended is marked "restart".
StartClick ==
    /\ LET s0 == IF Active THEN State ELSE [State EXCEPT !.trace = <<>>]
       IN  Commit(IF mounted = "breathing" THEN StartFlow(s0) ELSE Start(s0),
                  IF Active \/ outcome = "none" THEN "start" ELSE "restart")
    /\ elapsed' = IF Active THEN elapsed ELSE 0
    /\ stopClicks' = IF Active THEN stopClicks ELSE 0
    /\ outcome' = IF Active THEN outcome
                  ELSE IF Active' THEN "running" ELSE "completed"

\* A click on Stop.
StopClick ==
    /\ stopClicks < MaxStops
    /\ Commit(IF mounted = "breathing" THEN StopAll(State) ELSE Stop(State),
              "stop")
    /\ stopClicks' = stopClicks + 1
    /\ outcome' = IF Active THEN "stopped" ELSE outcome
    /\ UNCHANGED elapsed

\* A timer's callback has run: a run it ended has completed.
AfterCallback ==
    /\ outcome' = IF Active /\ ~Active' THEN "completed" ELSE outcome
    /\ UNCHANGED <<stopClicks, elapsed>>

\* A due countdown interval fires.
CountdownFire ==
    \E t \in pending :
        /\ t.kind = "countdown" /\ t.left = 0
        /\ Commit(CountdownCallback(State, t), "countdown")
        /\ AfterCallback

\* A due phase timeout fires.
AdvanceFire ==
    \E t \in pending :
        /\ t.kind = "advance" /\ t.left = 0
        /\ Len(trace) < MaxTrace
        /\ Commit(AdvanceCallback(State, t), "advance")
        /\ AfterCallback

\* A due cue interval fires.
TickFire ==
    \E t \in pending :
        /\ t.kind = "tick" /\ t.left = 0
        /\ Len(trace) < MaxTrace
        /\ Commit(IntervalCallback(State, t), "tick")
        /\ AfterCallback

\* One second passes: no timer is due, every active timer is a second closer.
\* (With no run and no active timer a second changes nothing.)
Elapse ==
    /\ pending # {} \/ Active
    /\ \A t \in pending : t.left > 0
    /\ Active => elapsed < MaxElapsed
    /\ pending' = {[t EXCEPT !.left = @ - 1] : t \in pending}
    /\ elapsed' = IF Active THEN elapsed + 1 ELSE elapsed
    /\ lastOp' = "elapse"
    /\ UNCHANGED <<config, running, timers, cycle, i, phaseBigText, countText,
                   circleTransform, isRunning, timer, idx, count, cueText,
                   roundText, utterance, trace, stopClicks, outcome, pyVars>>

Next ==
    \/ StartClick
    \/ StopClick
    \/ CountdownFire
    \/ AdvanceFire
    \/ TickFire
    \/ Elapse

Spec == Init /\ [][Next]_vars
SpecFault == InitFault /\ [][Next]_vars
SpecAny == InitAny /\ [][Next]_vars

\* Whether a timer of kind k is due.
Due(k) == \E t \in pending : t.kind = k /\ t.left = 0

\* The windows of Spec where time passes and every timer that is due fires:
\* the browser's event loop runs the callback of a due setTimeout or
\* setInterval as long as the timer is not cleared.  The last conjunct is
\* WF_vars(AdvanceFire) written out: AdvanceFire is enabled where a phase
\* timeout is due, and its steps are those that set lastOp to "advance".
SpecLive ==
    /\ Init /\ [][Next]_vars
    /\ WF_vars(Elapse)
    /\ WF_vars(CountdownFire) /\ WF_vars(TickFire)
    /\ \/ []<>~(Due("advance") /\ Len(trace) < MaxTrace)
       \/ []<><<lastOp' = "advance">>_vars

\* ------------------------------------------------- the countdown timers
\* The "60s Timer" of the Voice Warmup page (lines 1022-1030) and the prep
\* timer of the Meeting Primer page (1139-1148): a click on the button runs
\* a loop of the Python script that shows s and sleeps a second.  The run is
\* taken to its end (no widget is touched while it sleeps).
WarmupSecs == 60
PrepMinLow == 2
PrepMinHigh == 10
SecsPerMin == 60

\* range(total, -1, -1) stops before -1 (lines 1025, 1142).
RangeStop == -1

LoopStopsAtOne(k) == k > RangeStop + 1

\* Whether the loop has a pass for k.
LoopGoesOn(k) == k > RangeStop

\* total (line 1141); the 60 of line 1025.
Total == IF mounted = "warmup" THEN WarmupSecs ELSE durationMin * SecsPerMin

\* {n:02d}
Pad2(k) == IF k < 10 THEN "0" \o ToString(k) ELSE ToString(k)

\* What ph shows for s: f"{s}s" (line 1026), f"{mm:02d}:{ss:02d}" (1143-1145).
TimerTextOf(k) ==
    IF mounted = "warmup" THEN ToString(k) \o "s"
    ELSE Pad2(k \div SecsPerMin) \o ":" \o Pad2(k % SecsPerMin)

\* The row save_log appends (the time column is the wall clock's).
LogRow ==
    IF mounted = "warmup"
    THEN [module |-> "Voice Warmup", duration_sec |-> WarmupSecs,
          notes |-> "mmm/brrr/siren", rating |-> ""]
    ELSE [module |-> "Meeting Primer - timer", duration_sec |-> Total,
          notes |-> "", rating |-> ""]

browserVars ==
    <<running, timers, cycle, i, phaseBigText, countText, circleTransform,
      isRunning, timer, idx, count, cueText, roundText, pending, utterance,
      trace, lastOp, stopClicks, outcome, elapsed>>

\* A click on the timer's button: the script runs again, ph is a new empty
\* placeholder and the loop starts at total.
TimerClick ==
    /\ pyPc = "idle" /\ timerRuns < MaxTimerRuns
    /\ pyPc' = (IF LoopGoesOn(Total) THEN "loop" ELSE "after")
    /\ loopS' = Total
    /\ timerText' = ""
    /\ shownTexts' = <<>> /\ slept' = 0 /\ timerRuns' = timerRuns + 1
    /\ UNCHANGED <<config, browserVars, durationMin, successes, logRows>>

\* ph.markdown(...): s is shown.
TimerShow ==
    /\ pyPc = "loop"
    /\ timerText' = TimerTextOf(loopS)
    /\ shownTexts' = Append(shownTexts, TimerTextOf(loopS))
    /\ pyPc' = "sleep"
    /\ UNCHANGED <<config, browserVars, durationMin, loopS, successes, logRows,
                   slept, timerRuns>>

\* time.sleep(1) returns and the loop goes on to s - 1, or ends.
TimerSleep ==
    /\ pyPc = "sleep"
    /\ slept' = slept + 1
    /\ loopS' = loopS - 1
    /\ pyPc' = (IF LoopGoesOn(loopS - 1) THEN "loop" ELSE "after")
    /\ UNCHANGED <<config, browserVars, durationMin, timerText, successes,
                   logRows, shownTexts, timerRuns>>

\* After the loop: st.success(...) and save_log(...); the script ends.
TimerFinish ==
    /\ pyPc = "after"
    /\ successes' = successes + 1
    /\ logRows' = Append(logRows, LogRow)
    /\ pyPc' = "idle"
    /\ UNCHANGED <<config, browserVars, durationMin, loopS, timerText,
                   shownTexts, slept, timerRuns>>

InitTimer ==
    /\ Loaded
    /\ \/ Window("warmup", <<>>, 0, <<>>, 0, 0, FALSE, FALSE) /\ durationMin = 0
       \/ /\ Window("prep", <<>>, 0, <<>>, 0, 0, FALSE, FALSE)
          /\ durationMin \in PrepMinLow..PrepMinHigh

NextTimer ==
    \/ TimerClick
    \/ TimerShow
    \/ TimerSleep
    \/ TimerFinish

SpecTimer == InitTimer /\ [][NextTimer]_vars

\* ------------------------------------------------------------ properties
\* The texts of the events of kind e in a trace, in order.
RECURSIVE TextsOf(_, _)
TextsOf(tr, e) ==
    IF tr = <<>> THEN <<>>
    ELSE IF Head(tr).ev = e THEN <<Head(tr).txt>> \o TextsOf(Tail(tr), e)
    ELSE TextsOf(Tail(tr), e)

IsPrefix(a, b) == Len(a) <= Len(b) /\ a = SubSeq(b, 1, Len(a))

\* The first n items of the list l repeated over and over.
Cyclic(l, n) == [k \in 1..n |-> l[((k - 1) % Len(l)) + 1]]

StepLabels == [k \in 1..Len(steps) |-> steps[k].label]

\* The position of the first event of kind e in a trace (0: none).
FirstOf(tr, e) ==
    IF \E k \in 1..Len(tr) : tr[k].ev = e
    THEN CHOOSE k \in 1..Len(tr) :
             tr[k].ev = e /\ \A j \in 1..(k - 1) : tr[j].ev # e
    ELSE 0

\* After the first reset of the display the trace holds only resets of the
\* display and cancellations of speech.
QuietAfterReset(tr) ==
    \A k \in 1..Len(tr) :
        (FirstOf(tr, "reset") # 0 /\ k > FirstOf(tr, "reset"))
            => tr[k].ev \in {"reset", "cancel"}

\* C1: a breathing run on which Stop was not clicked displays the labels of
\* the pattern in order, cycle after cycle, never one too many, skipped or
\* repeated; when it has ended it has displayed exactly maxCycles * len(steps)
\* of them, and nothing of it is left running.
C1_PhaseSequence ==
    (mounted = "breathing" /\ stopClicks = 0 /\ outcome \in {"running", "completed"})
        => /\ IsPrefix(TextsOf(trace, "phase"),
                       Cyclic(StepLabels, maxCycles * Len(steps)))
           /\ Len(TextsOf(trace, "phase")) >= 1
           /\ (outcome = "completed") = ~running
           /\ outcome = "completed"
                 => /\ TextsOf(trace, "phase")
                         = Cyclic(StepLabels, maxCycles * Len(steps))
                    /\ pending = {}

C1_Witness ==
    /\ mounted = "breathing" /\ stopClicks = 0 /\ outcome = "completed"
    /\ Len(steps) = 3 /\ maxCycles = 2
    /\ Len(TextsOf(trace, "phase")) = 6

\* C2: once Stop was clicked on a running breathing run, and until the next
\* start, no phase is displayed any more, nothing runs or is scheduled, the
\* display shows the stopped state, and the display was reset once for each
\* click on Stop and by nothing else.
C2_StopIsFinal ==
    (mounted = "breathing" /\ outcome = "stopped")
        => /\ ~running
           /\ pending = {}
           /\ QuietAfterReset(trace)
           /\ Len(TextsOf(trace, "reset")) = stopClicks
           /\ phaseBigText = "Stopped" /\ countText = "--"
           /\ circleTransform = "scale(1)"

C2_Witness ==
    /\ mounted = "breathing" /\ outcome = "stopped" /\ stopClicks = 1
    /\ Len(TextsOf(trace, "phase")) = 2
    /\ maxCycles * Len(steps) >= 4

\* C3: a cue-caller run on which Stop was not clicked has announced and
\* displayed its first cue when start() returns; its k-th announcement is cue
\* (k-1) mod len(cues); it stops by itself exactly when rounds * len(cues)
\* cues have been announced.
C3_CueSequence ==
    (mounted = "caller" /\ stopClicks = 0 /\ outcome \in {"running", "completed"})
        => /\ Len(TextsOf(trace, "cue")) >= 1
           /\ IsPrefix(TextsOf(trace, "cue"), Cyclic(cues, rounds * Len(cues)))
           /\ supported => TextsOf(trace, "speak") = TextsOf(trace, "cue")
           /\ (outcome = "completed") = ~isRunning
           /\ (outcome = "completed")
                 = (Len(TextsOf(trace, "cue")) = rounds * Len(cues))

C3_Witness ==
    /\ mounted = "caller" /\ stopClicks = 0 /\ outcome = "completed"
    /\ Len(cues) = 3 /\ rounds = 2
    /\ Len(TextsOf(trace, "cue")) = 6

\* C4: in the cue caller, a tick that is active while a run is running is the
\* interval of that run (the one timer___KEY__ names, calling the tick of the
\* run's own closure), and from the moment a run has stopped until the next
\* start no cue, round or narration event occurs: a tick that is still
\* active then fires without effect.
C4_NoStaleTick ==
    mounted = "caller"
        => /\ isRunning
                => /\ \A t \in pending : t.id = timer
                   /\ Cardinality(pending) = 1
                   /\ DOMAIN idx = {t.run : t \in pending}
           /\ (~isRunning /\ outcome # "none") => QuietAfterReset(trace)
           /\ ~isRunning => cueText \in {"Ready", "Stopped"} /\ roundText = ""

\* A run of one cue and one round ended inside start(); its interval was
\* created after that, is still active and has fired.
C4_Witness ==
    /\ mounted = "caller" /\ Len(cues) = 1 /\ rounds = 1
    /\ outcome = "completed" /\ ~isRunning
    /\ pending # {} /\ lastOp = "tick"

\* C5: a click on Start while a run is running changes nothing: not the
\* position of the run, not the timers, not the display, not the narration,
\* and no event is emitted.
C5_StartIdempotent ==
    [][(Active /\ lastOp' = "start")
          => UNCHANGED <<running, timers, cycle, i, phaseBigText, countText,
                         circleTransform, isRunning, timer, idx, count, cueText,
                         roundText, pending, utterance, trace>>]_vars

C5_Witness ==
    /\ mounted = "breathing" /\ running /\ lastOp = "start"
    /\ elapsed >= 1 /\ Len(TextsOf(trace, "phase")) >= 2

\* What stopAll / stop leave on the display and in the speech slot.
StoppedView ==
    IF mounted = "breathing"
    THEN phaseBigText = "Stopped" /\ countText = "--"
         /\ circleTransform = "scale(1)" /\ utterance = ""
    ELSE cueText = "Stopped" /\ roundText = "" /\ utterance = ""

\* C6: a click on Stop while no run is running changes nothing: not the run
\* state, not the timers, not the display (a window that never ran still
\* shows "Ready"), not the speech slot.
C6_StopWhenIdle ==
    [][(~Active /\ lastOp' = "stop")
          => UNCHANGED <<running, timers, isRunning, timer, pending,
                         phaseBigText, countText, circleTransform, cueText,
                         roundText, utterance>>]_vars

\* The arguments the components are meant to be given.
ValidArgs ==
    IF mounted = "breathing"
    THEN /\ Len(steps) >= 1 /\ maxCycles >= 1
         /\ \A k \in 1..Len(steps) : steps[k].secs >= 1
    ELSE Len(cues) >= 1 /\ interval >= 1 /\ rounds >= 1

\* Seconds from the start of a run to the display of its k-th phase.
RECURSIVE SecsBefore(_)
SecsBefore(k) ==
    IF k <= 1 THEN 0
    ELSE SecsBefore(k - 1) + steps[((k - 2) % Len(steps)) + 1].secs

\* The phases a run is to have displayed e seconds after its start, and the
\* seconds it is to take.
PhasesBy(e) ==
    Cardinality({k \in 1..(maxCycles * Len(steps)) : SecsBefore(k) <= e})
RunSecs == SecsBefore(maxCycles * Len(steps) + 1)

\* The cues a run is to have announced e seconds after its start.
CuesBy(e) ==
    IF 1 + (e \div interval) < rounds * Len(cues)
    THEN 1 + (e \div interval) ELSE rounds * Len(cues)

NoneDue == \A t \in pending : t.left > 0

\* C7: with or without working narration (absent, or raising on every call)
\* a breathing run on which Stop was not clicked displays the same phases at
\* the same times: e seconds after its start the phases begun by then, and
\* it has ended when the durations of all its phases have passed.
C7_DisplayWithoutSpeech ==
    (mounted = "breathing" /\ stopClicks = 0
        /\ outcome \in {"running", "completed"} /\ NoneDue)
        => /\ TextsOf(trace, "phase") = Cyclic(StepLabels, PhasesBy(elapsed))
           /\ (outcome = "completed") = (elapsed >= RunSecs)

\* C8: with or without working narration a cue-caller run on which Stop was
\* not clicked advances on every tick: e seconds after its start it has
\* displayed the first 1 + e / interval cues of its rounds, and it has
\* stopped by itself once the last of them was displayed.
C8_CuesWithoutSpeech ==
    (mounted = "caller" /\ stopClicks = 0
        /\ outcome \in {"running", "completed"} /\ NoneDue)
        => /\ TextsOf(trace, "cue") = Cyclic(cues, CuesBy(elapsed))
           /\ (outcome = "completed")
                 = (Len(TextsOf(trace, "cue")) = rounds * Len(cues))

\* C9: with arguments that are not valid (no step or cue, a duration, an
\* interval or a target below 1) a click on Start starts nothing: no run is
\* running, no timer exists, and no display or narration event was emitted.
C9_InvalidArgsRejected ==
    (~ValidArgs /\ stopClicks = 0)
        => /\ ~running /\ ~isRunning
           /\ pending = {} /\ timers = <<>> /\ timer = 0
           /\ trace = <<>>
           /\ phaseBigText = "Ready" /\ cueText = "Ready"

\* The events from the first reset of the display on.
Teardown(tr) ==
    IF FirstOf(tr, "reset") = 0 THEN <<>>
    ELSE SubSeq(tr, FirstOf(tr, "reset"), Len(tr))

\* The events of one stopAll / stop call.
StopEvents ==
    IF supported THEN <<Ev("reset", "Stopped", 0), Ev("cancel", "", 0)>>
    ELSE <<Ev("reset", "Stopped", 0)>>

\* C10: a run that finished by itself tells its host so: what it emits at
\* its end and leaves on display is not just what a click on Stop emits and
\* leaves, so that the host can tell the two apart.
C10_CompletionNotified ==
    (outcome = "completed" /\ stopClicks = 0)
        => ~(StoppedView /\ Teardown(trace) = StopEvents)

\* What a countdown of Total seconds is to show: Total, ..., 1, 0.
TimerExpected == [k \in 1..(Total + 1) |-> TimerTextOf(Total + 1 - k)]

\* C11: a started countdown shows Total, Total - 1, ..., 1, 0 in this order,
\* one value for each second slept, and when it is over it has shown all of
\* them and has signalled completion once: one success message and one log
\* row, with duration_sec = Total, for each countdown run.
C11_CountdownValues ==
    timerRuns >= 1
        => /\ IsPrefix(shownTexts, TimerExpected)
           /\ Len(shownTexts) = slept + (IF pyPc = "sleep" THEN 1 ELSE 0)
           /\ pyPc \in {"after", "idle"} => shownTexts = TimerExpected
           /\ successes = (IF pyPc = "idle" THEN timerRuns ELSE timerRuns - 1)
           /\ Len(logRows) = successes
           /\ \A k \in 1..Len(logRows) : logRows[k].duration_sec = Total

C11_Witness ==
    /\ mounted = "prep" /\ durationMin = 2 /\ pyPc = "idle" /\ timerRuns = 1
    /\ Len(shownTexts) = 121 /\ timerText = "00:00"
    /\ successes = 1 /\ Len(logRows) = 1

\* C12: completion is signalled in the instant 0 is shown, Total seconds
\* (Total sleeps of a second) after Total was shown.
C12_CompletionImmediate ==
    (timerRuns >= 1 /\ pyPc \in {"after", "idle"}) => slept = Total

\* C13: in a cue-caller run on which Stop was not clicked the round
\* indicator reads "Round k of R" once k * len(cues) cues were announced
\* (k in 1..R), and no round number above R is ever written to it.
C13_RoundIndicator ==
    (mounted = "caller" /\ stopClicks = 0 /\ outcome \in {"running", "completed"})
        => /\ \A m \in 1..Len(trace) :
                  trace[m].ev = "round" => trace[m].n <= rounds
           /\ \A k \in 1..rounds :
                  Len(TextsOf(trace, "cue")) = k * Len(cues)
                      => roundText = RoundLabel(k)

\* The values the countdown display was given from the k-th event of the
\* trace, the display of a phase, up to the next phase or reset.
RECURSIVE CountsFrom(_, _)
CountsFrom(tr, k) ==
    IF k > Len(tr) \/ tr[k].ev \in {"phase", "reset"} THEN <<>>
    ELSE IF tr[k].ev = "count" THEN <<tr[k].n>> \o CountsFrom(tr, k + 1)
    ELSE CountsFrom(tr, k + 1)

\* The event that ends the phase displayed by the k-th event (0: none yet).
PhaseEnd(tr, k) ==
    IF \E j \in (k + 1)..Len(tr) : tr[j].ev \in {"phase", "reset"}
    THEN CHOOSE j \in (k + 1)..Len(tr) :
             /\ tr[j].ev \in {"phase", "reset"}
             /\ \A h \in (k + 1)..(j - 1) : tr[h].ev \notin {"phase", "reset"}
    ELSE 0

\* C14: in a breathing run on which Stop was not clicked, a phase of d
\* seconds that is over has had the countdown display show d, d - 1, ..., 1
\* and 0.
C14_CountdownToZero ==
    (mounted = "breathing" /\ stopClicks = 0)
        => \A k \in 1..Len(trace) :
               (trace[k].ev = "phase" /\ PhaseEnd(trace, k) # 0)
                   => <<trace[k].n>> \o CountsFrom(trace, k + 1)
                          = [j \in 1..(trace[k].n + 1) |-> trace[k].n + 1 - j]

\* C15: in the breathing component the narration of a phase's label is
\* triggered in the callback that displays the phase: in every state the
\* display of a phase is followed at once by the narration of its label, so
\* before the display of the next phase, and nothing is narrated but the
\* phase just displayed.
C15_NarrationWithDisplay ==
    (mounted = "breathing" /\ supported)
        => /\ \A k \in 1..Len(trace) :
                  trace[k].ev = "phase"
                      => /\ k + 2 <= Len(trace)
                         /\ trace[k + 1].ev = "cancel"
                         /\ trace[k + 2] = Ev("speak", trace[k].txt, 0)
           /\ \A k \in 1..Len(trace) :
                  trace[k].ev = "speak"
                      => k >= 3 /\ trace[k - 2].ev = "phase"
                                /\ trace[k - 2].txt = trace[k].txt
           /\ running => utterance = phaseBigText

C15_Witness ==
    /\ mounted = "breathing" /\ supported /\ running /\ lastOp = "advance"
    /\ TextsOf(trace, "speak") = <<"Inhale", "Hold">>
    /\ phaseBigText = "Hold" /\ utterance = "Hold"

\* C16: in the breathing component every timer of a run is recorded in the
\* timer list (two for each phase displayed: its countdown interval and its
\* timeout), and after a stop, as long as no run is running, no timeout and
\* no countdown is active and the countdown display stays reset.
C16_TimersTracked ==
    mounted = "breathing"
        => /\ \A t \in pending : \E k \in 1..Len(timers) : timers[k] = t.id
           /\ running => Len(timers) = 2 * Len(TextsOf(trace, "phase"))
           /\ ~running => pending = {} /\ timers = <<>> /\ countText = "--"

C16_Witness ==
    /\ mounted = "breathing" /\ outcome = "stopped" /\ lastOp = "stop"
    /\ stopClicks = 1 /\ elapsed = 1
    /\ trace[1] = Ev("phase", "Inhale", 2) /\ Len(TextsOf(trace, "phase")) = 1
    /\ \E k \in 1..Len(trace) : trace[k] = Ev("count", "", 1)
    /\ pending = {} /\ countText = "--"

\* C17: a timer callback (countdown tick, phase timeout, cue tick) that
\* runs while no run is running changes neither the display nor the
\* narration, whenever Stop was clicked.
C17_IdleCallbacksSilent ==
    [][(~Active /\ lastOp' \in {"countdown", "advance", "tick"})
          => UNCHANGED <<phaseBigText, countText, circleTransform, cueText,
                         roundText, utterance, trace>>]_vars

C17_Witness ==
    /\ mounted = "caller" /\ ~isRunning /\ lastOp = "tick"
    /\ cueText = "Stopped" /\ roundText = ""
    /\ \E t \in pending : t.kind = "tick" /\ t.left = interval /\ t.id = timer

\* C18: between callbacks of the breathing component the cycle counter of a
\* run is at most maxCycles, and while a run is running it is the run of the
\* one pending phase timeout, its step index is below len(steps) and its
\* cycle counter below maxCycles.
C18_SequencerInvariant ==
    mounted = "breathing"
        => /\ \A r \in DOMAIN cycle : cycle[r] <= maxCycles
           /\ running
                 => /\ DOMAIN cycle # {} /\ DOMAIN i = DOMAIN cycle
                    /\ \A r \in DOMAIN cycle :
                           i[r] < Len(steps) /\ cycle[r] < maxCycles

C18_Witness ==
    /\ mounted = "breathing" /\ running /\ maxCycles = 2 /\ Len(steps) = 3
    /\ \E r \in DOMAIN cycle : cycle[r] = 1 /\ i[r] = 2
    /\ phaseBigText = "Exhale"

\* C19: in the cue caller the round counter of a run never exceeds rounds,
\* over any clicks on Start and Stop and any ticks; it counts the rounds of
\* cues announced, and a run whose counter has reached rounds has stopped in
\* that very tick: while a run is running its counter is below rounds.
C19_RoundsBounded ==
    mounted = "caller"
        => /\ \A r \in DOMAIN count :
                  /\ count[r] <= rounds
                  /\ count[r] = idx[r] \div Len(cues)
                  /\ count[r] = rounds => ~isRunning
           /\ isRunning => DOMAIN count # {}

C19_Witness ==
    /\ mounted = "caller" /\ isRunning /\ rounds = 2 /\ Len(cues) = 2
    /\ lastOp = "tick" /\ roundText = "Round 2 of 2"
    /\ \E r \in DOMAIN count : count[r] = 1 /\ idx[r] = 3

\* The pending phase timeouts.
Advances == {t \in pending : t.kind = "advance"}

\* C20: over any clicks on Start and Stop and any timer firings at most one
\* phase timeout is pending in the breathing component, only while a run is
\* running, and it is the timeout of the run the last effective start
\* created: the last timer recorded, its closure standing at the phase
\* displayed last since that start.
C20_OneRunActive ==
    mounted = "breathing"
        => /\ Cardinality(Advances) <= 1
           /\ Cardinality(DOMAIN cycle) <= 1
           /\ running = (Advances # {})
           /\ \A t \in Advances :
                  /\ DOMAIN cycle = {t.run}
                  /\ timers # <<>> /\ timers[Len(timers)] = t.id
                  /\ cycle[t.run] * Len(steps) + i[t.run] + 1
                         = Len(TextsOf(trace, "phase"))

C20_Witness ==
    /\ mounted = "breathing" /\ running /\ lastOp = "advance"
    /\ Cardinality(Advances) = 1 /\ Cardinality(pending) = 3
    /\ Len(TextsOf(trace, "phase")) = 2

\* C21: with valid arguments, and timers that fire when due, every run that
\* is running stops at some time; a breathing run that ended by itself did
\* so exactly maxCycles times the sum of its steps' seconds after its
\* start, and no run runs longer than that.
C21_Termination ==
    /\ Active ~> ~Active
    /\ [](mounted = "breathing"
             => /\ outcome = "completed" => elapsed = RunSecs
                /\ outcome \in {"running", "stopped"} => elapsed <= RunSecs)

C21_Witness ==
    /\ mounted = "breathing" /\ outcome = "completed" /\ stopClicks = 0
    /\ lastOp = "advance" /\ ~running
    /\ maxCycles = 2 /\ Len(steps) = 2 /\ elapsed = RunSecs /\ RunSecs = 6

\* The script's state when a breathing window has loaded, and the state its
\* first click on Start leaves.
FreshState ==
    [State EXCEPT !.running = FALSE, !.timers = <<>>, !.cycle = NoClosure,
                  !.i = NoClosure, !.phaseBigText = "Ready", !.countText = "--",
                  !.circleTransform = "", !.pending = {}, !.utterance = "",
                  !.trace = <<>>]
FirstStart == StartFlow(FreshState)

\* C22: a click on Start after a breathing run has ended, stopped at any
\* position or completed, leaves the state a first click on Start leaves: a
\* running run at cycle 0 and step 0, the first phase displayed, its two
\* timers the only ones, and nothing of the run before; so the run goes on
\* as a first run does.
C22_RestartFresh ==
    [][(mounted = "breathing" /\ lastOp' = "restart")
          => /\ running' /\ running' = FirstStart.running
             /\ \A r \in DOMAIN cycle' : cycle'[r] = 0 /\ i'[r] = 0
             /\ cycle' = FirstStart.cycle /\ i' = FirstStart.i
             /\ timers' = FirstStart.timers /\ pending' = FirstStart.pending
             /\ phaseBigText' = FirstStart.phaseBigText
             /\ countText' = FirstStart.countText
             /\ circleTransform' = FirstStart.circleTransform
             /\ utterance' = FirstStart.utterance
             /\ trace' = FirstStart.trace
             /\ TextsOf(trace', "phase") = <<steps[1].label>>]_vars

C22_Witness ==
    /\ mounted = "breathing" /\ lastOp = "restart" /\ running
    /\ maxCycles = 2 /\ Len(steps) = 3
    /\ DOMAIN cycle # {} /\ \A r \in DOMAIN cycle : cycle[r] = 0 /\ i[r] = 0
    /\ phaseBigText = "Inhale" /\ Cardinality(pending) = 2

\* C23: in a cue-caller run on which Stop was not clicked every cue
\* announced, the last one too, stays the cue displayed, its narration not
\* cancelled, for a full interval: the n-th cue, announced (n - 1) * interval
\* seconds after the start, until n * interval seconds after it.
C23_CueHeld ==
    (mounted = "caller" /\ stopClicks = 0 /\ outcome \in {"running", "completed"})
        => LET said == TextsOf(trace, "cue")
               n == Len(said)
           IN  (n >= 1 /\ elapsed < n * interval)
                   => /\ cueText = said[n]
                      /\ supported => utterance = said[n]

====
